---- MODULE Spec2Model ----
(***************************************************************************)
(* Model of isengard2/_db.py: the incremental-build cache kept in one      *)
(* SQLite file.  The file system holds one location (`path`) that names an *)
(* inode or nothing; every connection is bound to the inode that the       *)
(* location named when the connection was made, so a file unlinked by one  *)
(* process stays in use by the connections that already have it open.      *)
(* Two processes run DB.connect scopes against the same location.          *)
(***************************************************************************)
EXTENDS Integers, Sequences, FiniteSets, TLC

\* ---------------------------------------------------------------- bounds
MaxOpens == 2          \* DB.connect calls, over both processes
MaxScopedRecords == 1  \* set_rule_previous_run calls in those scopes
MaxRecords == 2        \* set_rule_previous_run calls on two open handles

\* ------------------------------------------------------- program constants
DB_VERSION == 1
VERSION_MAGIC_NUMBER == 76388

\* ------------------------------------------------------------ sample data
Procs == {1, 2}
Fingerprints == {"0x01", "0x02"}
Targets == {"//a:build", "//a:test"}
OutputFingerprints == {"0xAA", "0xBB"}
TableNames == {"version", "rule_run", "target_output"}

\* Python's None for a BLOB/TEXT result; a RuleRunID of None is written 0
\* (SQLite rowids start at 1).
None == "None"

\* The `outputs` arguments: every list of at most one entry per target, and
\* with them the lists of that length that name a target twice.
Outputs ==
  UNION {[1..n -> Targets \X OutputFingerprints] : n \in 0..Cardinality(Targets)}

\* ------------------------------------------------------- database content
\* An empty file is a valid SQLite database with no table.
EmptyDb ==
  [kind |-> "sqlite", tables |-> {}, version |-> {}, rule_run |-> {},
   target_output |-> {}]

\* A file that is not an SQLite database.
GarbageDb == [EmptyDb EXCEPT !.kind = "garbage"]

SQL_CREATE_VERSION_TABLE(db) ==
  [db EXCEPT !.tables = @ \cup {"version"}]

SQL_CREATE_RULE_RUN_TABLE(db) ==
  [db EXCEPT !.tables = @ \cup {"rule_run"}]

SQL_CREATE_TARGET_OUTPUT_TABLE(db) ==
  [db EXCEPT !.tables = @ \cup {"target_output"}]

\* INSERT INTO version(value) VALUES(DB_VERSION); magic takes its default and
\* is UNIQUE.  Result: the exception raised ("" for none) and the content.
SQL_INIT_VERSION_ROW_WrongValue(db) ==
  IF \E r \in db.version : r.magic = VERSION_MAGIC_NUMBER
  THEN [exc |-> "IntegrityError", db |-> db]
  ELSE [exc |-> "",
        db |-> [db EXCEPT !.version =
                  @ \cup {[magic |-> VERSION_MAGIC_NUMBER, value |-> DB_VERSION - 1]}]]

SQL_INIT_VERSION_ROW(db) ==
  IF \E r \in db.version : r.magic = VERSION_MAGIC_NUMBER
  THEN [exc |-> "IntegrityError", db |-> db]
  ELSE [exc |-> "",
        db |-> [db EXCEPT !.version =
                  @ \cup {[magic |-> VERSION_MAGIC_NUMBER, value |-> DB_VERSION]}]]

\* SELECT value FROM version WHERE magic = VERSION_MAGIC_NUMBER, then
\* `current_db_version, = cur.fetchone()`: unpacking None is a TypeError.
SQL_FETCH_VERSION_ROW(db) ==
  IF db.kind = "garbage" THEN [exc |-> "DatabaseError", value |-> -1]
  ELSE IF "version" \notin db.tables THEN [exc |-> "OperationalError", value |-> -1]
  ELSE IF \A r \in db.version : r.magic # VERSION_MAGIC_NUMBER
       THEN [exc |-> "TypeError", value |-> -1]
  ELSE [exc |-> "",
        value |-> (CHOOSE r \in db.version : r.magic = VERSION_MAGIC_NUMBER).value]

\* rowid given to a row inserted without one: largest rowid in use plus one.
NextRowId(rows) ==
  IF rows = {} THEN 1
  ELSE (CHOOSE r \in rows : \A s \in rows : s._id <= r._id)._id + 1

\* INSERT OR REPLACE: the conflicting row is deleted and a new one inserted.
SQL_UPDATE_RULE_RUN_Replace(db, fingerprint) ==
  LET kept == {r \in db.rule_run : r.fingerprint # fingerprint}
  IN [db EXCEPT !.rule_run =
        kept \cup {[_id |-> NextRowId(db.rule_run), fingerprint |-> fingerprint]}]

\* Plain INSERT into a column that is not UNIQUE.
SQL_UPDATE_RULE_RUN_NoConflict(db, fingerprint) ==
  [db EXCEPT !.rule_run =
     @ \cup {[_id |-> NextRowId(db.rule_run), fingerprint |-> fingerprint]}]

\* INSERT ... ON CONFLICT(fingerprint) DO UPDATE SET fingerprint = excluded.fingerprint
SQL_UPDATE_RULE_RUN(db, fingerprint) ==
  IF \E r \in db.rule_run : r.fingerprint = fingerprint
  THEN [db EXCEPT !.rule_run =
          {IF r.fingerprint = fingerprint
           THEN [r EXCEPT !.fingerprint = fingerprint] ELSE r : r \in @}]
  ELSE [db EXCEPT !.rule_run =
          @ \cup {[_id |-> NextRowId(db.rule_run), fingerprint |-> fingerprint]}]

\* The newest row, whatever its fingerprint.
SQL_FETCH_RULE_RUN_Latest(db, fingerprint) ==
  IF db.rule_run = {} THEN 0 ELSE NextRowId(db.rule_run) - 1

\* SELECT _id FROM rule_run WHERE fingerprint = ?, fetchone(), row[0] or None
SQL_FETCH_RULE_RUN(db, fingerprint) ==
  IF \E r \in db.rule_run : r.fingerprint = fingerprint
  THEN (CHOOSE r \in db.rule_run : r.fingerprint = fingerprint)._id
  ELSE 0

\* A DELETE that removes nothing.
SQL_DELETE_TARGET_OUTPUTS_Keep(db, run) == db

\* DELETE without its WHERE: the outputs of every run go.
SQL_DELETE_TARGET_OUTPUTS_All(db, run) == [db EXCEPT !.target_output = {}]

\* DELETE FROM target_output WHERE run = ?
SQL_DELETE_TARGET_OUTPUTS(db, run) ==
  [db EXCEPT !.target_output = {r \in @ : r.run # run}]

\* INSERT OR IGNORE: a row that breaks UNIQUE(run, target) is skipped.
SQL_INSERT_TARGET_OUTPUT_Ignore(db, run, target, fingerprint) ==
  IF \E r \in db.target_output : r.run = run /\ r.target = target
  THEN [exc |-> "", db |-> db]
  ELSE [exc |-> "",
        db |-> [db EXCEPT !.target_output =
                  @ \cup {[run |-> run, target |-> target, fingerprint |-> fingerprint]}]]

\* A target_output table declared without UNIQUE(run, target).
SQL_INSERT_TARGET_OUTPUT_NoUnique(db, run, target, fingerprint) ==
  [exc |-> "",
   db |-> [db EXCEPT !.target_output =
             @ \cup {[run |-> run, target |-> target, fingerprint |-> fingerprint]}]]

\* INSERT INTO target_output(run, target, fingerprint) VALUES(?, ?, ?)
\* under UNIQUE(run, target).
SQL_INSERT_TARGET_OUTPUT(db, run, target, fingerprint) ==
  IF \E r \in db.target_output : r.run = run /\ r.target = target
  THEN [exc |-> "IntegrityError", db |-> db]
  ELSE [exc |-> "",
        db |-> [db EXCEPT !.target_output =
                  @ \cup {[run |-> run, target |-> target, fingerprint |-> fingerprint]}]]

\* cur.executemany(SQL_INSERT_TARGET_OUTPUT, [(run_id, *o) for o in outputs]):
\* the rows go in in order and the first failure stops the statement.
RECURSIVE executemany(_, _, _, _)
executemany(db, run, outputs, k) ==
  IF k > Len(outputs) THEN [exc |-> "", db |-> db]
  ELSE LET r == SQL_INSERT_TARGET_OUTPUT(db, run, outputs[k][1], outputs[k][2])
       IN IF r.exc # "" THEN r ELSE executemany(r.db, run, outputs, k + 1)

\* SELECT fingerprint FROM target_output WHERE run = ? AND target = ?
SQL_FETCH_TARGET_OUTPUT(db, run, target) ==
  IF \E r \in db.target_output : r.run = run /\ r.target = target
  THEN (CHOOSE r \in db.target_output : r.run = run /\ r.target = target).fingerprint
  ELSE None

\* -------------------------------------------------------------- the state
VARIABLES
  file,    \* inode the location `path` names, 0 when no file is there
  inodes,  \* inodes[i]: committed content of file i, as every connection reads it
  hist,    \* hist[i][f]: history of the committed set_rule_previous_run calls on i
  pc,      \* pc[p]: the statement process p executes next
  con,     \* con[p]: inode of p's open connection, 0 when p holds none
  txn,     \* txn[p]: p's open transaction and the content as p sees it
  call,    \* call[p]: arguments and run_id of p's running set_rule_previous_run
  seen,    \* seen[p]: what p's running init_or_reset_db met at the location
  snap,    \* snap[p]: committed content when p's set_rule_previous_run began
  obs,     \* the call that returned or raised in the step just taken
  opens_left,    \* DB.connect calls the callers still make
  records_left   \* set_rule_previous_run calls that still get the write lock

vars == <<file, inodes, hist, pc, con, txn, call, seen, snap, obs, opens_left, records_left>>

NoTxn == [active |-> FALSE, db |-> EmptyDb]
NoCall == [fingerprint |-> "", outputs |-> <<>>, run_id |-> 0]
NoSeen == [fresh |-> FALSE, found |-> ""]
\* Per fingerprint: the identifiers set_rule_previous_run returned for it, how
\* many calls committed, and the (target, fingerprint) pairs of the last one.
NoHist == [f \in Fingerprints |-> [ids |-> {}, n |-> 0, outs |-> {}]]

\* A finished call: who made it, its arguments, what it returned (id: a run
\* identifier, fp: an output fingerprint) or the exception it raised; for
\* DB.connect also what init_or_reset_db met.
Obs(p, op, f, run, target, id, fp, exc) ==
  [proc |-> p, op |-> op, fingerprint |-> f, run |-> run, target |-> target,
   id |-> id, fp |-> fp, exc |-> exc, seen |-> NoSeen]

NoObs == Obs(0, "", "", 0, "", 0, None, "")

Connected(p, exc) == [Obs(p, "connect", "", 0, "", 0, None, exc) EXCEPT !.seen = seen[p]]

\* Run identifiers a caller may ask about: those in use and one more.
RunIds == 1..(Cardinality(Fingerprints) + 1)

\* A store left by an older release: every table, a marker of another version,
\* one run with one output.
OldDb ==
  [kind |-> "sqlite", tables |-> TableNames,
   version |-> {[magic |-> VERSION_MAGIC_NUMBER, value |-> DB_VERSION - 1]},
   rule_run |-> {[_id |-> 1, fingerprint |-> "0x01"]},
   target_output |-> {[run |-> 1, target |-> "//a:build", fingerprint |-> "0xAA"]}]

\* A store whose recreation stopped before the marker was inserted.
NoMarkerDb == [EmptyDb EXCEPT !.tables = TableNames]

Init ==
  /\ \/ file = 0 /\ inodes = <<>> /\ hist = <<>>
     \/ /\ file = 1
        /\ \E db \in {GarbageDb, NoMarkerDb, OldDb} : inodes = <<db>>
        /\ hist = <<NoHist>>
  /\ pc = [p \in Procs |-> "idle"]
  /\ con = [p \in Procs |-> 0]
  /\ txn = [p \in Procs |-> NoTxn]
  /\ call = [p \in Procs |-> NoCall]
  /\ seen = [p \in Procs |-> NoSeen]
  /\ snap = [p \in Procs |-> EmptyDb]
  /\ obs = NoObs
  /\ opens_left = MaxOpens
  /\ records_left = MaxScopedRecords

\* ------------------------------------------------ connections, transactions
\* sqlite3_connect(path): opens the file at the location, creating an empty one
\* when there is none.
sqlite3_connect(p) ==
  /\ IF file = 0
     THEN /\ inodes' = Append(inodes, EmptyDb)
          /\ hist' = Append(hist, NoHist)
          /\ file' = Len(inodes) + 1
     ELSE UNCHANGED <<inodes, hist, file>>
  /\ con' = [con EXCEPT ![p] = file']

\* What p's statements read: its own uncommitted changes, else the file.
View(p) == IF txn[p].active THEN txn[p].db ELSE inodes[con[p]]

\* No write lock: a second writer is let in while the first has not committed.
Busy_Never(p) == FALSE

\* Another connection holds the write lock of the file p is connected to.
Busy(p) == \E q \in Procs \ {p} : txn[q].active /\ con[q] = con[p]

\* No transaction control at all: every statement commits on its own.
implicit_begin_Autocommit(stmt) == FALSE

\* The sqlite3 module opens a transaction before INSERT, UPDATE, DELETE and
\* REPLACE, and before nothing else: a CREATE TABLE outside a transaction
\* commits on its own.
implicit_begin(stmt) == stmt \in {"INSERT", "UPDATE", "DELETE", "REPLACE"}

\* p executes a writing statement `stmt` whose effect on the content is db.
execute(p, stmt, db) ==
  IF txn[p].active \/ implicit_begin(stmt)
  THEN /\ txn' = [txn EXCEPT ![p] = [active |-> TRUE, db |-> db]]
       /\ UNCHANGED inodes
  ELSE /\ inodes' = [inodes EXCEPT ![con[p]] = db]
       /\ UNCHANGED txn

\* `with con:` left normally.
commit(p) ==
  IF txn[p].active
  THEN /\ inodes' = [inodes EXCEPT ![con[p]] = txn[p].db]
       /\ txn' = [txn EXCEPT ![p] = NoTxn]
  ELSE UNCHANGED <<inodes, txn>>

\* `with con:` left by an exception.
rollback(p) ==
  /\ txn' = [txn EXCEPT ![p] = NoTxn]
  /\ UNCHANGED inodes

\* ------------------------------------------------------- init_or_reset_db
\* `if current_db_version != DB_VERSION`
NeedsReset_Always(current_db_version) == TRUE

NeedsReset(current_db_version) == current_db_version # DB_VERSION

Found(db) ==
  LET r == SQL_FETCH_VERSION_ROW(db)
  IN CASE r.exc = "DatabaseError" -> "garbage"
       [] r.exc = "OperationalError" -> "no_table"
       [] r.exc = "TypeError" -> "no_row"
       [] r.value = DB_VERSION -> "current"
       [] OTHER -> "other_version"

\* The two processes run the same code: the one that calls DB.connect first
\* is numbered 1.
FirstIsOne(p) == opens_left = MaxOpens => p = 1

\* DB.connect calls init_or_reset_db, which connects to the location.
connect(p) ==
  /\ pc[p] = "idle"
  /\ opens_left > 0
  /\ FirstIsOne(p)
  /\ sqlite3_connect(p)
  /\ opens_left' = opens_left - 1
  /\ pc' = [pc EXCEPT ![p] = "check"]
  /\ seen' = [seen EXCEPT ![p] = [fresh |-> file = 0, found |-> ""]]
  /\ obs' = NoObs
  /\ UNCHANGED <<txn, call, snap, records_left>>

\* sqlite3_connect raises OperationalError: reported as IsengardDBError.
connect_fails(p) ==
  /\ pc[p] = "idle"
  /\ opens_left > 0
  /\ FirstIsOne(p)
  /\ opens_left' = opens_left - 1
  /\ pc' = [pc EXCEPT ![p] = "failed"]
  /\ obs' = Connected(p, "IsengardDBError")
  /\ UNCHANGED <<file, inodes, hist, con, txn, call, seen, snap, records_left>>

\* The optimistic check.  OperationalError is caught and stands for version
\* -1; any other exception leaves init_or_reset_db with the connection open.
fetch_version(p) ==
  /\ pc[p] = "check"
  /\ LET r == SQL_FETCH_VERSION_ROW(inodes[con[p]])
         s == [seen[p] EXCEPT !.found = Found(inodes[con[p]])]
     IN IF r.exc \notin {"", "OperationalError"}
        THEN /\ pc' = [pc EXCEPT ![p] = "failed"]
             /\ obs' = [Connected(p, r.exc) EXCEPT !.seen = s]
             /\ seen' = [seen EXCEPT ![p] = NoSeen]
        ELSE IF NeedsReset(r.value)
        THEN /\ pc' = [pc EXCEPT ![p] = "close"]
             /\ obs' = NoObs
             /\ seen' = [seen EXCEPT ![p] = s]
        ELSE /\ pc' = [pc EXCEPT ![p] = "ready"]
             /\ obs' = [Connected(p, "") EXCEPT !.seen = s]
             /\ seen' = [seen EXCEPT ![p] = NoSeen]
  /\ UNCHANGED <<file, inodes, hist, con, txn, call, snap, opens_left, records_left>>

\* con.close() before the incompatible file is destroyed.
close_incompatible(p) ==
  /\ pc[p] = "close"
  /\ con' = [con EXCEPT ![p] = 0]
  /\ pc' = [pc EXCEPT ![p] = "unlink"]
  /\ obs' = NoObs
  /\ UNCHANGED <<file, inodes, hist, txn, call, seen, snap, opens_left, records_left>>

\* path.unlink(); FileNotFoundError is passed over.
unlink(p) ==
  /\ pc[p] = "unlink"
  /\ file' = 0
  /\ pc' = [pc EXCEPT ![p] = "reconnect"]
  /\ obs' = NoObs
  /\ UNCHANGED <<inodes, hist, con, txn, call, seen, snap, opens_left, records_left>>

\* path.unlink() raises anything else: reported as IsengardDBError.
unlink_fails(p) ==
  /\ pc[p] = "unlink"
  /\ file # 0
  /\ pc' = [pc EXCEPT ![p] = "failed"]
  /\ obs' = Connected(p, "IsengardDBError")
  /\ seen' = [seen EXCEPT ![p] = NoSeen]
  /\ UNCHANGED <<file, inodes, hist, con, txn, call, snap, opens_left, records_left>>

\* con = sqlite3_connect(path) of the recreation.
reconnect(p) ==
  /\ pc[p] = "reconnect"
  /\ sqlite3_connect(p)
  /\ pc' = [pc EXCEPT ![p] = "create_version"]
  /\ obs' = NoObs
  /\ UNCHANGED <<txn, call, seen, snap, opens_left, records_left>>

create_version_table(p) ==
  /\ pc[p] = "create_version"
  /\ ~Busy(p)
  /\ execute(p, "CREATE", SQL_CREATE_VERSION_TABLE(View(p)))
  /\ pc' = [pc EXCEPT ![p] = "create_rule_run"]
  /\ obs' = NoObs
  /\ UNCHANGED <<file, hist, con, call, seen, snap, opens_left, records_left>>

create_rule_run_table(p) ==
  /\ pc[p] = "create_rule_run"
  /\ ~Busy(p)
  /\ execute(p, "CREATE", SQL_CREATE_RULE_RUN_TABLE(View(p)))
  /\ pc' = [pc EXCEPT ![p] = "create_target_output"]
  /\ obs' = NoObs
  /\ UNCHANGED <<file, hist, con, call, seen, snap, opens_left, records_left>>

create_target_output_table(p) ==
  /\ pc[p] = "create_target_output"
  /\ ~Busy(p)
  /\ execute(p, "CREATE", SQL_CREATE_TARGET_OUTPUT_TABLE(View(p)))
  /\ pc' = [pc EXCEPT ![p] = "init_version"]
  /\ obs' = NoObs
  /\ UNCHANGED <<file, hist, con, call, seen, snap, opens_left, records_left>>

\* cur.execute(SQL_INIT_VERSION_ROW).  A marker that is already there makes
\* it raise IntegrityError, which the `except OperationalError` lets through.
init_version_row(p) ==
  /\ pc[p] = "init_version"
  /\ ~Busy(p)
  /\ LET r == SQL_INIT_VERSION_ROW(View(p))
     IN IF r.exc # ""
        THEN /\ rollback(p)
             /\ pc' = [pc EXCEPT ![p] = "failed"]
             /\ obs' = Connected(p, r.exc)
             /\ seen' = [seen EXCEPT ![p] = NoSeen]
        ELSE /\ execute(p, "INSERT", r.db)
             /\ pc' = [pc EXCEPT ![p] = "init_commit"]
             /\ obs' = NoObs
             /\ UNCHANGED seen
  /\ UNCHANGED <<file, hist, con, call, snap, opens_left, records_left>>

\* The `with con:` of the recreation is left and init_or_reset_db returns.
init_commit(p) ==
  /\ pc[p] = "init_commit"
  /\ commit(p)
  /\ pc' = [pc EXCEPT ![p] = "ready"]
  /\ obs' = Connected(p, "")
  /\ seen' = [seen EXCEPT ![p] = NoSeen]
  /\ UNCHANGED <<file, hist, con, call, snap, opens_left, records_left>>

\* Any statement of the recreation raises OperationalError (no space left,
\* an I/O error, a locked file): rolled back and reported as IsengardDBError.
\* When the connecting itself failed there is no new connection.
recreate_fails(p) ==
  /\ pc[p] \in {"reconnect", "create_version", "create_rule_run",
                "create_target_output", "init_version", "init_commit"}
  /\ rollback(p)
  /\ pc' = [pc EXCEPT ![p] = "failed"]
  /\ obs' = Connected(p, "IsengardDBError")
  /\ seen' = [seen EXCEPT ![p] = NoSeen]
  /\ UNCHANGED <<file, hist, con, call, snap, opens_left, records_left>>

\* ------------------------------------------------------------- DB.connect
\* The body of the `with DB.connect(path)` ends: `finally: con.close()`.
exit_scope(p) ==
  /\ pc[p] = "ready"
  /\ con' = [con EXCEPT ![p] = 0]
  /\ pc' = [pc EXCEPT ![p] = "idle"]
  /\ obs' = Obs(p, "exit", "", 0, "", 0, None, "")
  /\ UNCHANGED <<file, inodes, hist, txn, call, seen, snap, opens_left, records_left>>

\* The body raises: `finally: con.close()`, and the exception goes on.
body_raises(p) ==
  /\ pc[p] = "ready"
  /\ con' = [con EXCEPT ![p] = 0]
  /\ pc' = [pc EXCEPT ![p] = "idle"]
  /\ obs' = Obs(p, "exit", "", 0, "", 0, None, "Exception")
  /\ UNCHANGED <<file, inodes, hist, txn, call, seen, snap, opens_left, records_left>>

\* ------------------------------------------------------------- class DB
Range(seq) == {seq[k] : k \in 1..Len(seq)}

\* Get-or-create: a fetch that inserts the row it does not find.
fetch_rule_previous_run_Creates(p, fingerprint) ==
  /\ pc[p] = "ready"
  /\ inodes' = [inodes EXCEPT ![con[p]] = SQL_UPDATE_RULE_RUN(@, fingerprint)]
  /\ obs' = Obs(p, "fetch_rule_previous_run", fingerprint, 0, "",
                SQL_FETCH_RULE_RUN(inodes'[con[p]], fingerprint), None, "")
  /\ UNCHANGED <<file, hist, pc, con, txn, call, seen, snap, opens_left, records_left>>

fetch_rule_previous_run(p, fingerprint) ==
  /\ pc[p] = "ready"
  /\ obs' = Obs(p, "fetch_rule_previous_run", fingerprint, 0, "",
                SQL_FETCH_RULE_RUN(inodes[con[p]], fingerprint), None, "")
  /\ UNCHANGED <<file, inodes, hist, pc, con, txn, call, seen, snap, opens_left, records_left>>

fetch_target_output_fingerprint(p, run_id, target) ==
  /\ pc[p] = "ready"
  /\ obs' = Obs(p, "fetch_target_output_fingerprint", "", run_id, target, 0,
                SQL_FETCH_TARGET_OUTPUT(inodes[con[p]], run_id, target), "")
  /\ UNCHANGED <<file, inodes, hist, pc, con, txn, call, seen, snap, opens_left, records_left>>

\* set_rule_previous_run, first statement: `with self.con:` is entered and
\* SQL_UPDATE_RULE_RUN executed.
set_rule_previous_run(p, fingerprint, outputs) ==
  /\ pc[p] = "ready"
  /\ records_left > 0
  /\ ~Busy(p)
  /\ execute(p, "INSERT", SQL_UPDATE_RULE_RUN(View(p), fingerprint))
  /\ call' = [call EXCEPT ![p] =
       [fingerprint |-> fingerprint, outputs |-> outputs, run_id |-> 0]]
  /\ snap' = [snap EXCEPT ![p] = inodes[con[p]]]
  /\ records_left' = records_left - 1
  /\ pc' = [pc EXCEPT ![p] = "fetch_id"]
  /\ obs' = NoObs
  /\ UNCHANGED <<file, hist, con, seen, opens_left>>

\* A retry inside the method: the call does not return, it waits for the lock.
set_rule_previous_run_locked_Waits(p, fingerprint) ==
  /\ pc[p] = "ready"
  /\ Busy(p)
  /\ pc' = [pc EXCEPT ![p] = "waiting"]
  /\ call' = [call EXCEPT ![p] = [NoCall EXCEPT !.fingerprint = fingerprint]]
  /\ obs' = NoObs
  /\ UNCHANGED <<file, inodes, hist, con, txn, seen, snap, opens_left, records_left>>

\* The first statement finds the file locked by another writer and raises
\* OperationalError; the `with` rolls back and the caller gets the exception.
\* `outputs` is not reached.
set_rule_previous_run_locked(p, fingerprint) ==
  /\ pc[p] = "ready"
  /\ Busy(p)
  /\ rollback(p)
  /\ obs' = Obs(p, "set_rule_previous_run", fingerprint, 0, "", 0, None,
                "OperationalError")
  /\ UNCHANGED <<file, hist, pc, con, call, seen, snap, opens_left, records_left>>

\* row = self.con.execute(SQL_FETCH_RULE_RUN, ...).fetchone(); run_id = row[0]
fetch_run_id(p) ==
  /\ pc[p] = "fetch_id"
  /\ call' = [call EXCEPT ![p].run_id = SQL_FETCH_RULE_RUN(View(p), call[p].fingerprint)]
  /\ pc' = [pc EXCEPT ![p] = "delete"]
  /\ obs' = NoObs
  /\ UNCHANGED <<file, inodes, hist, con, txn, seen, snap, opens_left, records_left>>

\* cur.execute(SQL_DELETE_TARGET_OUTPUTS, (run_id, ))
delete_target_outputs(p) ==
  /\ pc[p] = "delete"
  /\ execute(p, "DELETE", SQL_DELETE_TARGET_OUTPUTS(View(p), call[p].run_id))
  /\ pc' = [pc EXCEPT ![p] = "insert"]
  /\ obs' = NoObs
  /\ UNCHANGED <<file, hist, con, call, seen, snap, opens_left, records_left>>

\* cur.executemany(SQL_INSERT_TARGET_OUTPUT, ...).  IntegrityError leaves the
\* `with`, which rolls the transaction back, and reaches the caller.
insert_target_outputs(p) ==
  /\ pc[p] = "insert"
  /\ LET r == executemany(View(p), call[p].run_id, call[p].outputs, 1)
     IN IF r.exc # ""
        THEN /\ IF txn[p].active
                THEN rollback(p)
                ELSE inodes' = [inodes EXCEPT ![con[p]] = r.db] /\ UNCHANGED txn
             /\ pc' = [pc EXCEPT ![p] = "ready"]
             /\ obs' = Obs(p, "set_rule_previous_run", call[p].fingerprint, 0, "",
                           0, None, r.exc)
             /\ call' = [call EXCEPT ![p] = NoCall]
             /\ snap' = [snap EXCEPT ![p] = EmptyDb]
        ELSE /\ execute(p, "INSERT", r.db)
             /\ pc' = [pc EXCEPT ![p] = "commit"]
             /\ obs' = NoObs
             /\ UNCHANGED <<call, snap>>
  /\ UNCHANGED <<file, hist, con, seen, opens_left, records_left>>

\* The `with self.con:` is left: commit, then `return run_id`.
commit_rule_run(p) ==
  /\ pc[p] = "commit"
  /\ commit(p)
  /\ hist' = [hist EXCEPT ![con[p]][call[p].fingerprint] =
       [ids |-> @.ids \cup {call[p].run_id}, n |-> @.n + 1,
        outs |-> Range(call[p].outputs)]]
  /\ obs' = Obs(p, "set_rule_previous_run", call[p].fingerprint, 0, "",
                call[p].run_id, None, "")
  /\ call' = [call EXCEPT ![p] = NoCall]
  /\ snap' = [snap EXCEPT ![p] = EmptyDb]
  /\ pc' = [pc EXCEPT ![p] = "ready"]
  /\ UNCHANGED <<file, con, seen, opens_left, records_left>>

\* ------------------------------------------------------ the specification
Next ==
  \E p \in Procs :
    \/ connect(p)
    \/ connect_fails(p)
    \/ fetch_version(p)
    \/ close_incompatible(p)
    \/ unlink(p)
    \/ unlink_fails(p)
    \/ reconnect(p)
    \/ create_version_table(p)
    \/ create_rule_run_table(p)
    \/ create_target_output_table(p)
    \/ init_version_row(p)
    \/ init_commit(p)
    \/ recreate_fails(p)
    \/ exit_scope(p)
    \/ body_raises(p)
    \/ \E f \in Fingerprints : fetch_rule_previous_run(p, f)
    \/ \E r \in RunIds, t \in Targets : fetch_target_output_fingerprint(p, r, t)
    \/ \E f \in Fingerprints, o \in Outputs : set_rule_previous_run(p, f, o)
    \/ \E f \in Fingerprints : set_rule_previous_run_locked(p, f)
    \/ fetch_run_id(p)
    \/ delete_target_outputs(p)
    \/ insert_target_outputs(p)
    \/ commit_rule_run(p)

Spec == Init /\ [][Next]_vars

\* Two handles that DB.connect returned on the store init_or_reset_db made at
\* a fresh location, and the calls of class DB on them.
ReadyDb ==
  SQL_INIT_VERSION_ROW(
    SQL_CREATE_TARGET_OUTPUT_TABLE(
      SQL_CREATE_RULE_RUN_TABLE(SQL_CREATE_VERSION_TABLE(EmptyDb)))).db

InitStore ==
  /\ file = 1
  /\ inodes = <<ReadyDb>>
  /\ hist = <<NoHist>>
  /\ pc = [p \in Procs |-> "ready"]
  /\ con = [p \in Procs |-> 1]
  /\ txn = [p \in Procs |-> NoTxn]
  /\ call = [p \in Procs |-> NoCall]
  /\ seen = [p \in Procs |-> NoSeen]
  /\ snap = [p \in Procs |-> EmptyDb]
  /\ obs = NoObs
  /\ opens_left = 0
  /\ records_left = MaxRecords

NextStore ==
  \E p \in Procs :
    \/ \E f \in Fingerprints : fetch_rule_previous_run(p, f)
    \/ \E r \in RunIds, t \in Targets : fetch_target_output_fingerprint(p, r, t)
    \/ \E f \in Fingerprints, o \in Outputs : set_rule_previous_run(p, f, o)
    \/ \E f \in Fingerprints : set_rule_previous_run_locked(p, f)
    \/ fetch_run_id(p)
    \/ delete_target_outputs(p)
    \/ insert_target_outputs(p)
    \/ commit_rule_run(p)

SpecStore == InitStore /\ [][NextStore]_vars

\* ---------------------------------------------------------------- claims
IsReady(db) ==
  /\ db.kind = "sqlite"
  /\ db.tables = TableNames
  /\ db.version = {[magic |-> VERSION_MAGIC_NUMBER, value |-> DB_VERSION]}

InCall(p) == pc[p] \in {"fetch_id", "delete", "insert", "commit"}

HasDuplicate(outputs) ==
  \E j, k \in 1..Len(outputs) : j < k /\ outputs[j][1] = outputs[k][1]

\* The fingerprint that a set of (target, fingerprint) pairs gives a target.
Paired(outs, target) ==
  IF \E o \in outs : o[1] = target
  THEN (CHOOSE o \in outs : o[1] = target)[2]
  ELSE None

\* The content a committed set_rule_previous_run(f, outputs) leaves, from the
\* content `pre` it started on.
AfterRecord(pre, f, outputs) ==
  LET id == IF \E r \in pre.rule_run : r.fingerprint = f
            THEN (CHOOSE r \in pre.rule_run : r.fingerprint = f)._id
            ELSE NextRowId(pre.rule_run)
  IN [pre EXCEPT
        !.rule_run = @ \cup {[_id |-> id, fingerprint |-> f]},
        !.target_output =
           {r \in @ : r.run # id} \cup
           {[run |-> id, target |-> o[1], fingerprint |-> o[2]] : o \in Range(outputs)}]

\* What the fetch reported in obs returns on the content db.
ReadOn(db) ==
  IF obs.op = "fetch_rule_previous_run"
  THEN <<SQL_FETCH_RULE_RUN(db, obs.fingerprint), None>>
  ELSE <<0, SQL_FETCH_TARGET_OUTPUT(db, obs.run, obs.target)>>

IsFetch == obs.op \in {"fetch_rule_previous_run", "fetch_target_output_fingerprint"}

\* C1: set_rule_previous_run is atomic for readers on another connection.  A
\* fetch made while another process is inside set_rule_previous_run on the same
\* file returns what it returns on the content from before that call or on the
\* content the call leaves when it commits; as long as the call runs the
\* committed content is the one from before it; and when the call ends the
\* committed content is the complete result (it returned) or still the content
\* from before (it raised).
C1_ReadersSeeBeforeOrAfter ==
  /\ [](/\ IsFetch =>
           \A p \in Procs \ {obs.proc} :
             InCall(p) /\ con[p] = con[obs.proc] =>
               \/ <<obs.id, obs.fp>> = ReadOn(snap[p])
               \/ /\ ~HasDuplicate(call[p].outputs)
                  /\ <<obs.id, obs.fp>> =
                       ReadOn(AfterRecord(snap[p], call[p].fingerprint, call[p].outputs))
        /\ \A p \in Procs : InCall(p) => inodes[con[p]] = snap[p])
  /\ [][\A p \in Procs :
          InCall(p) /\ pc'[p] = "ready" =>
            IF obs'.exc = ""
            THEN inodes'[con[p]] =
                   AfterRecord(snap[p], call[p].fingerprint, call[p].outputs)
            ELSE inodes'[con[p]] = snap[p]]_vars

\* A reader was given the old output of a run while the writer, on the same
\* file, had already deleted that run's outputs in its transaction.
C1_Witness ==
  /\ obs.op = "fetch_target_output_fingerprint"
  /\ obs.fp # None
  /\ \E p \in Procs \ {obs.proc} :
       /\ pc[p] = "insert"
       /\ con[p] = con[obs.proc]
       /\ call[p].run_id = obs.run
       /\ Paired(Range(call[p].outputs), obs.target) # obs.fp

\* C2: fetch_target_output_fingerprint(run_id, t) returns the fingerprint that
\* the last committed set_rule_previous_run for the run's fingerprint paired
\* with t, None when t was not in that call's outputs, and None when no call
\* ever returned run_id.
C2_FetchReflectsLastOutputs ==
  obs.op = "fetch_target_output_fingerprint" =>
    LET h == hist[con[obs.proc]]
        owners == {f \in Fingerprints : obs.run \in h[f].ids}
    IN /\ owners = {} => obs.fp = None
       /\ \A f \in owners : obs.fp = Paired(h[f].outs, obs.target)

\* After two committed calls for one fingerprint, a fetch returned nothing for
\* a target of the first call that the second left out, while the run still
\* has an output.
C2_Witness ==
  /\ obs.op = "fetch_target_output_fingerprint"
  /\ obs.fp = None
  /\ \E f \in Fingerprints :
       LET h == hist[con[obs.proc]][f]
       IN /\ h.n = 2
          /\ obs.run \in h.ids
          /\ h.outs # {}
          /\ \A o \in h.outs : o[1] # obs.target

\* C3: fetch_rule_previous_run(f) returns the one identifier that every
\* committed set_rule_previous_run for f returned, and None for a fingerprint
\* never recorded.
C3_FetchReturnsRecordedId ==
  obs.op = "fetch_rule_previous_run" =>
    LET ids == hist[con[obs.proc]][obs.fingerprint].ids
    IN IF ids = {} THEN obs.id = 0 ELSE ids = {obs.id}

\* The fetch of a fingerprint recorded first, after another fingerprint was
\* recorded too.
C3_Witness ==
  /\ obs.op = "fetch_rule_previous_run"
  /\ obs.id = 1
  /\ \E f \in Fingerprints \ {obs.fingerprint} : hist[con[obs.proc]][f].ids # {}

\* C4: a set_rule_previous_run for a fingerprint that has a rule_run row
\* returns that row's identifier and leaves the rule_run rows as they were.
C4_RerecordKeepsRow ==
  [][\A p \in Procs :
       /\ pc[p] = "commit"
       /\ pc'[p] = "ready"
       /\ \E r \in snap[p].rule_run : r.fingerprint = call[p].fingerprint
       => \E r \in snap[p].rule_run :
            /\ r.fingerprint = call[p].fingerprint
            /\ obs'.id = r._id
            /\ inodes'[con[p]].rule_run = snap[p].rule_run]_vars

\* The second committed call for a fingerprint has just returned.
C4_Witness ==
  /\ obs.op = "set_rule_previous_run"
  /\ obs.exc = ""
  /\ hist[con[obs.proc]][obs.fingerprint].n = 2

\* C5: in every file, two rule_run rows have the same identifier exactly when
\* they have the same fingerprint, and no identifier was returned for two
\* fingerprints.
C5_FingerprintToIdInjective ==
  \A i \in 1..Len(inodes) :
    /\ \A r1, r2 \in inodes[i].rule_run :
         (r1._id = r2._id) <=> (r1.fingerprint = r2.fingerprint)
    /\ \A f1, f2 \in Fingerprints :
         f1 # f2 => hist[i][f1].ids \cap hist[i][f2].ids = {}

\* Two calls with different fingerprints have committed on one store.
C5_Witness ==
  \E i \in 1..Len(inodes) :
    /\ Cardinality(inodes[i].rule_run) = 2
    /\ \A f \in Fingerprints : hist[i][f].n = 1

\* C8: a set_rule_previous_run whose outputs name a target twice raises
\* IntegrityError and leaves the store as it was before the call: the
\* transaction is gone and the committed content is the one the call started on.
C8_DuplicateTargetHasNoEffect ==
  [][\A p \in Procs :
       /\ pc[p] = "insert"
       /\ pc'[p] # "insert"
       /\ HasDuplicate(call[p].outputs)
       => /\ obs'.proc = p
          /\ obs'.op = "set_rule_previous_run"
          /\ obs'.exc = "IntegrityError"
          /\ pc'[p] = "ready"
          /\ ~txn'[p].active
          /\ inodes'[con[p]] = snap[p]
          /\ hist' = hist]_vars

\* The call that raised was for a fingerprint recorded before with outputs,
\* and those outputs are all still in the store.
C8_Witness ==
  /\ obs.op = "set_rule_previous_run"
  /\ obs.exc = "IntegrityError"
  /\ LET h == hist[con[obs.proc]][obs.fingerprint]
     IN /\ h.outs # {}
        /\ \A o \in h.outs : \A id \in h.ids :
             [run |-> id, target |-> o[1], fingerprint |-> o[2]]
               \in inodes[con[obs.proc]].target_output

Incompatible == {"garbage", "no_table", "no_row", "other_version"}

\* The store p holds is READY and empty.
FreshStore(p) ==
  /\ pc[p] = "ready"
  /\ con[p] # 0
  /\ IsReady(inodes[con[p]])
  /\ inodes[con[p]].rule_run = {}
  /\ inodes[con[p]].target_output = {}

\* C6: at a location whose version marker is absent (no version table, a
\* malformed file, a version table without the marker row) or of another
\* version, DB.connect reports nothing but the IsengardDBError of a failed
\* delete or recreation, and when it returns the store is READY and empty.
C6_IncompatibleIsReset ==
  obs.op = "connect" /\ obs.seen.found \in Incompatible =>
    /\ obs.exc \in {"", "IsengardDBError"}
    /\ obs.exc = "" => FreshStore(obs.proc)

\* C7: a process that is outside every DB.connect scope, because the scope
\* ended or because DB.connect raised, holds no open connection.
C7_ConnectionReleased ==
  \A p \in Procs : pc[p] \in {"idle", "failed"} => con[p] = 0

\* C9: the version check of a store whose marker has the current version
\* returns the connection it was made on and changes neither the location nor
\* any file, and every run and output recorded in that store is returned by
\* the fetch queries on the handle.
C9_CompatibleOpenChangesNothing ==
  [][\A p \in Procs :
       /\ pc[p] = "check"
       /\ pc'[p] # "check"
       /\ Found(inodes[con[p]]) = "current"
       => /\ pc'[p] = "ready"
          /\ obs'.proc = p /\ obs'.op = "connect" /\ obs'.exc = ""
          /\ con' = con
          /\ file' = file
          /\ inodes' = inodes
          /\ \A f \in Fingerprints :
               LET h == hist[con[p]][f]
                   db == inodes'[con'[p]]
               IN h.ids # {} =>
                    /\ h.ids = {SQL_FETCH_RULE_RUN(db, f)}
                    /\ \A o \in h.outs :
                         SQL_FETCH_TARGET_OUTPUT(db, SQL_FETCH_RULE_RUN(db, f), o[1]) = o[2]]_vars

\* DB.connect has just returned on a store found compatible, in which a run
\* with outputs was recorded by a scope that is closed now.
C9_Witness ==
  /\ obs.op = "connect"
  /\ obs.exc = ""
  /\ obs.seen.found = "current"
  /\ \A q \in Procs \ {obs.proc} : con[q] = 0
  /\ \E f \in Fingerprints :
       /\ hist[con[obs.proc]][f].outs # {}
       /\ inodes[con[obs.proc]].target_output # {}

\* C10: DB.connect at a location that held no file, and whose file was still
\* without tables at the version check, returns a READY store with no rule_run
\* row, no target_output row and the one marker of the current version.
C10_FreshLocationGivesEmptyStore ==
  /\ obs.op = "connect"
  /\ obs.exc = ""
  /\ obs.seen.fresh
  /\ obs.seen.found = "no_table"
  => FreshStore(obs.proc)

\* DB.connect has just returned from the reset of a location it created.
C10_Witness ==
  /\ obs.op = "connect"
  /\ obs.exc = ""
  /\ obs.seen.fresh
  /\ obs.seen.found = "no_table"
  /\ FreshStore(obs.proc)

\* ------------------------------------------- two writers that call again
\* Two callers on the same READY store.  Each records one run, for a
\* fingerprint of its own, with outputs that name no target twice, and calls
\* set_rule_previous_run again whenever sqlite3 rejects the call as locked.
Wanted(p) == IF p = 1 THEN "0x01" ELSE "0x02"

Recorded(p) == hist[con[p]][Wanted(p)].n > 0

InitRetry ==
  /\ file = 1
  /\ inodes = <<ReadyDb>>
  /\ hist = <<NoHist>>
  /\ pc = [p \in Procs |-> "ready"]
  /\ con = [p \in Procs |-> 1]
  /\ txn = [p \in Procs |-> NoTxn]
  /\ call = [p \in Procs |-> NoCall]
  /\ seen = [p \in Procs |-> NoSeen]
  /\ snap = [p \in Procs |-> EmptyDb]
  /\ obs = NoObs
  /\ opens_left = 0
  /\ records_left = Cardinality(Procs)

\* The caller's call, let in by sqlite3.
record_run(p) ==
  /\ ~Recorded(p)
  /\ \E o \in {x \in Outputs : ~HasDuplicate(x)} :
       set_rule_previous_run(p, Wanted(p), o)

\* The caller's call, rejected as locked; the caller will call again.
record_run_rejected(p) ==
  /\ ~Recorded(p)
  /\ set_rule_previous_run_locked(p, Wanted(p))

\* What a caller that is scheduled does next: its call, or the next statement
\* of the call it is in.
CallerStep(p) ==
  \/ record_run(p)
  \/ fetch_run_id(p)
  \/ delete_target_outputs(p)
  \/ insert_target_outputs(p)
  \/ commit_rule_run(p)

NextRetry ==
  \E p \in Procs :
    \/ record_run(p)
    \/ record_run_rejected(p)
    \/ fetch_run_id(p)
    \/ delete_target_outputs(p)
    \/ insert_target_outputs(p)
    \/ commit_rule_run(p)

\* Each caller is a process of its own that the operating system keeps
\* running: a step it can take for ever, it takes.
FairRetry == \A p \in Procs : WF_vars(CallerStep(p))

SpecRetry == InitRetry /\ [][NextRetry]_vars /\ FairRetry

\* The run of caller p is in the store under an identifier of its own with
\* exactly the outputs of p's call.
RunIntact(p) ==
  LET db == inodes[1]
      id == SQL_FETCH_RULE_RUN(db, Wanted(p))
  IN /\ Recorded(p)
     /\ id # 0
     /\ hist[1][Wanted(p)].ids = {id}
     /\ {[target |-> r.target, fingerprint |-> r.fingerprint] :
           r \in {x \in db.target_output : x.run = id}}
        = {[target |-> o[1], fingerprint |-> o[2]] : o \in hist[1][Wanted(p)].outs}

BothRecorded ==
  /\ \A p \in Procs : RunIntact(p)
  /\ SQL_FETCH_RULE_RUN(inodes[1], Wanted(1)) # SQL_FETCH_RULE_RUN(inodes[1], Wanted(2))
  /\ Cardinality(inodes[1].rule_run) = Cardinality(Procs)

\* C11: two callers that record runs for different fingerprints on the same
\* store, each calling again when rejected as locked, both succeed in the end:
\* the store then holds two rows of rule_run under two distinct identifiers,
\* each with exactly the outputs its caller gave.
C11_BothWritersSucceed == <>BothRecorded

\* Both runs are in the store, the second just committed by a caller that had
\* to wait for the first.
C11_Witness ==
  /\ BothRecorded
  /\ obs.op = "set_rule_previous_run" /\ obs.exc = "" /\ obs.id = 2
  /\ \E p \in Procs : hist[1][Wanted(p)].outs # {}

\* C12: every failure that init_or_reset_db reports is an IsengardDBError: no
\* other kind of exception leaves it.
C12_OnlyDBErrorEscapes ==
  (obs.op = "connect" /\ obs.exc # "") => obs.exc = "IsengardDBError"

\* A step in which p calls set_rule_previous_run, or goes on in it.
Records(p) ==
  \/ pc'[p] # pc[p]
  \/ txn'[p] # txn[p]
  \/ call'[p] # call[p]
  \/ obs'.proc = p /\ obs'.op = "set_rule_previous_run"

\* C13: a set_rule_previous_run that sqlite3 rejects as locked is not tried
\* again inside the method: the one attempt ends with the exception at the
\* caller, no transaction of the caller is left open, and the rows of rule_run
\* and target_output, and the other writer's transaction, are as before.
C13_LockedCallFailsAtOnce ==
  [][\A p \in Procs :
       (pc[p] = "ready" /\ Busy(p) /\ Records(p)) =>
         /\ obs'.proc = p
         /\ obs'.op = "set_rule_previous_run"
         /\ obs'.exc = "OperationalError"
         /\ pc' = pc
         /\ call' = call
         /\ ~txn'[p].active
         /\ \A q \in Procs \ {p} : txn'[q] = txn[q]
         /\ inodes' = inodes]_vars

\* A call was just rejected while the other writer, in the middle of its own
\* call, holds the lock of a store that already has a run with an output.
C13_Witness ==
  /\ obs.op = "set_rule_previous_run"
  /\ obs.exc = "OperationalError"
  /\ pc[obs.proc] = "ready"
  /\ \E q \in Procs \ {obs.proc} : InCall(q) /\ txn[q].active
  /\ inodes[1].rule_run # {}
  /\ inodes[1].target_output # {}

\* The recreation of p's init_or_reset_db just failed, on the file p made.
RecreationFailed(p) ==
  /\ obs.proc = p
  /\ obs.op = "connect"
  /\ obs.exc \in {"IsengardDBError", "IntegrityError"}
  /\ pc[p] = "failed"
  /\ con[p] # 0

\* C14: the recreation of the schema is one atomic unit: after a recreation
\* that failed at any step, the file it worked on does not hold tables
\* without the version marker (it holds all three tables and the marker, or
\* nothing).
C14_RecreationIsAtomic ==
  \A p \in Procs :
    RecreationFailed(p)
      => ~(inodes[con[p]].tables # {} /\ inodes[con[p]].version = {})

OutputsOf(db, run) == {x \in db.target_output : x.run = run}

\* From content `pre` to content `post` no row of rule_run went, at most one
\* came, a new row is for `fingerprint`, and every run of another fingerprint
\* has its identifier and its whole set of outputs as before.
OthersKept(pre, post, fingerprint) ==
  /\ pre.rule_run \subseteq post.rule_run
  /\ Cardinality(post.rule_run) <= Cardinality(pre.rule_run) + 1
  /\ \A r \in post.rule_run \ pre.rule_run : r.fingerprint = fingerprint
  /\ \A r \in pre.rule_run :
       r.fingerprint # fingerprint => OutputsOf(post, r._id) = OutputsOf(pre, r._id)
  /\ \A x \in post.target_output \ pre.target_output :
       SQL_FETCH_RULE_RUN(post, fingerprint) = x.run

\* C15: set_rule_previous_run(fingerprint, outputs) touches the run of
\* `fingerprint` only.  No statement of the call, and no commit, deletes a
\* row of rule_run or adds more than one, and the runs of other fingerprints
\* keep their identifiers and their whole sets of target_output rows.
C15_OtherRunsUntouched ==
  [][/\ \A p \in Procs :
          txn'[p].active => OthersKept(inodes[con[p]], txn'[p].db, call'[p].fingerprint)
     /\ \A i \in 1..Len(inodes) :
          inodes'[i] # inodes[i] =>
            \E p \in Procs : /\ InCall(p)
                             /\ con[p] = i
                             /\ OthersKept(inodes[i], inodes'[i], call[p].fingerprint)]_vars

\* A call for one fingerprint just committed a new row while the run of the
\* other fingerprint, recorded before, still has its outputs.
C15_Witness ==
  /\ obs.op = "set_rule_previous_run"
  /\ obs.exc = ""
  /\ hist[1][obs.fingerprint].outs # {}
  /\ \E r \in inodes[1].rule_run :
       /\ r.fingerprint # obs.fingerprint
       /\ OutputsOf(inodes[1], r._id) # {}
       /\ r._id < obs.id

OnePerTarget(db) ==
  \A x, y \in db.target_output : (x.run = y.run /\ x.target = y.target) => x = y

\* C16: a store never holds two rows of target_output for the same run and
\* target, whatever calls of set_rule_previous_run succeeded or failed
\* before; this holds of the committed content and of what a writer sees in
\* the middle of its call.
C16_OneOutputPerRunAndTarget ==
  /\ \A i \in 1..Len(inodes) : OnePerTarget(inodes[i])
  /\ \A p \in Procs : txn[p].active => OnePerTarget(txn[p].db)

\* A call that named a target twice, with two fingerprints, just failed on a
\* store whose run already has an output for each target.
C16_Witness ==
  /\ obs.op = "set_rule_previous_run"
  /\ obs.exc = "IntegrityError"
  /\ \E r \in inodes[1].rule_run :
       /\ r.fingerprint = obs.fingerprint
       /\ {x.target : x \in OutputsOf(inodes[1], r._id)} = Targets

FetchOps == {"fetch_rule_previous_run", "fetch_target_output_fingerprint"}

\* C17: fetch_rule_previous_run and fetch_target_output_fingerprint have no
\* side effect.  Whatever they are asked, the step of a fetch leaves the file,
\* its content (version marker, rule_run, target_output), every transaction
\* and every connection as they were, and a fetch that directly follows the
\* same fetch on the same file returns the same result.
C17_FetchesChangeNothing ==
  [][obs'.op \in FetchOps =>
       /\ UNCHANGED <<file, inodes, txn, hist, pc, con, call, snap>>
       /\ ( /\ obs.op = obs'.op
            /\ obs.fingerprint = obs'.fingerprint
            /\ obs.run = obs'.run
            /\ obs.target = obs'.target
            /\ con[obs.proc] = con[obs'.proc] )
          => (obs'.id = obs.id /\ obs'.fp = obs.fp)]_vars

\* A fetch just returned a stored output fingerprint while the other process,
\* in the middle of a call for that run, has uncommitted changes.
C17_Witness ==
  /\ obs.op = "fetch_target_output_fingerprint"
  /\ obs.fp # None
  /\ \E p \in Procs \ {obs.proc} :
       /\ pc[p] = "commit"
       /\ txn[p].active
       /\ call[p].run_id = obs.run
       /\ txn[p].db # inodes[con[p]]

Referenced(db) == \A x \in db.target_output : \E r \in db.rule_run : r._id = x.run

\* C18: every row of target_output belongs to a run that exists: its run is
\* the _id of a row of rule_run, in the committed content and in what a writer
\* sees during its call, also after calls that failed and were rolled back.
C18_OutputsBelongToRuns ==
  /\ \A i \in 1..Len(inodes) : Referenced(inodes[i])
  /\ \A p \in Procs : txn[p].active => Referenced(txn[p].db)

\* A call for a second fingerprint just failed and was rolled back; the outputs
\* recorded before belong to the one run there is.
C18_Witness ==
  /\ obs.op = "set_rule_previous_run"
  /\ obs.exc = "IntegrityError"
  /\ inodes[1].target_output # {}
  /\ Cardinality(inodes[1].rule_run) = 1
  /\ \A r \in inodes[1].rule_run : r.fingerprint # obs.fingerprint

\* C19: the reset is safe when two processes run init_or_reset_db on the same
\* location at once: path.unlink() never deletes a file that has been made a
\* READY store, and when both processes hold a handle, both handles are on the
\* READY store that is at the location.
C19_ResetSafeUnderConcurrentOpens ==
  [][/\ \A p \in Procs :
          (pc[p] = "unlink" /\ pc'[p] = "reconnect" /\ file # 0)
            => ~IsReady(inodes[file])
     /\ (\A p \in Procs : pc'[p] = "ready")
          => \A p \in Procs : con'[p] = file' /\ IsReady(inodes'[con'[p]])]_vars
====
